---- MODULE Spec2Model ----
(***************************************************************************)
(* Model of arboard's macOS backend (src/src/osx_clipboard.rs) and of the  *)
(* Clipboard facade that delegates to it (src/src/lib.rs).                 *)
(*                                                                         *)
(* The general pasteboard is a sequence of pasteboard items; an item is a  *)
(* sequence of representations [typ, data] in the order they were added.   *)
(* Rust Strings and Vec<u8> are byte sequences, an NSString is a sequence  *)
(* of Unicode scalar values.                                               *)
(***************************************************************************)
EXTENDS Naturals, Sequences, FiniteSets

VARIABLES pb, open, wr, rd, pc, guard, loc, cands

vars == <<pb, open, wr, rd, pc, guard, loc, cands>>

(***************************************************************************)
(* Bounds of the model.                                                    *)
(***************************************************************************)
MaxHandles == 1
MaxEntries == 2
MaxListLen == 3
MaxTextLen == 2
MaxThreads == 2

(***************************************************************************)
(* ContentType (common.rs, used by both files): six well-known kinds and   *)
(* Custom(String).                                                         *)
(***************************************************************************)
WellKnownTags == {"Text", "Html", "Rtf", "Png", "Pdf", "Url"}

WK(tag) == [tag |-> tag, s |-> ""]

Custom(str) == [tag |-> "Custom", s |-> str]

Text == WK("Text")
Html == WK("Html")
Rtf == WK("Rtf")
Png == WK("Png")
Pdf == WK("Pdf")
Url == WK("Url")

WellKnown == {WK(tag) : tag \in WellKnownTags}

\* Native identifiers of the macOS table.
TableIds == {"public.file-url", "public.html", "com.adobe.pdf", "public.png",
             "public.rtf", "public.utf8-plain-text"}

\* Strings outside the table: an identifier of an application's own, a table
\* identifier in other letter case (the match is on the exact string), and
\* the empty string.
OtherIds == {"com.example.custom", "PUBLIC.HTML", ""}

NativeIds == TableIds \cup OtherIds

ContentTypes == WellKnown \cup {Custom("public.html")} \cup {Custom(str) : str \in OtherIds}

(***************************************************************************)
(* normalize_content_type / denormalize_content_type                       *)
(***************************************************************************)
\* normalize_content_type with the arms of public.rtf and of
\* public.utf8-plain-text exchanged.
normalize_content_type_swapped(str) ==
    CASE str = "public.file-url" -> Url
      [] str = "public.html" -> Html
      [] str = "com.adobe.pdf" -> Pdf
      [] str = "public.png" -> Png
      [] str = "public.rtf" -> Text
      [] str = "public.utf8-plain-text" -> Rtf
      [] OTHER -> Custom(str)

normalize_content_type(str) ==
    CASE str = "public.file-url" -> Url
      [] str = "public.html" -> Html
      [] str = "com.adobe.pdf" -> Pdf
      [] str = "public.png" -> Png
      [] str = "public.rtf" -> Rtf
      [] str = "public.utf8-plain-text" -> Text
      [] OTHER -> Custom(str)

\* denormalize_ct_single with the Custom arm returning the empty string
\* instead of the string Custom holds.
denormalize_ct_single_dropped(ct) ==
    CASE ct.tag = "Url" -> "public.file-url"
      [] ct.tag = "Html" -> "public.html"
      [] ct.tag = "Pdf" -> "com.adobe.pdf"
      [] ct.tag = "Png" -> "public.png"
      [] ct.tag = "Rtf" -> "public.rtf"
      [] ct.tag = "Text" -> "public.utf8-plain-text"
      [] OTHER -> ""

denormalize_ct_single(ct) ==
    CASE ct.tag = "Url" -> "public.file-url"
      [] ct.tag = "Html" -> "public.html"
      [] ct.tag = "Pdf" -> "com.adobe.pdf"
      [] ct.tag = "Png" -> "public.png"
      [] ct.tag = "Rtf" -> "public.rtf"
      [] ct.tag = "Text" -> "public.utf8-plain-text"
      [] OTHER -> ct.s

denormalize_content_type(ct) == <<denormalize_ct_single(ct)>>

(***************************************************************************)
(* UTF-8: a Rust String is a valid UTF-8 byte sequence.  NSString::from_str*)
(* decodes it into an NSString, INSString::as_str encodes it again.        *)
(***************************************************************************)
\* One scalar value of each encoded length: 'H', U+00E9, U+2211, U+1F913.
Chars == {72, 233, 8721, 129299}

Utf8EncodeChar(c) ==
    IF c < 128 THEN <<c>>
    ELSE IF c < 2048 THEN <<192 + (c \div 64), 128 + (c % 64)>>
    ELSE IF c < 65536 THEN
        <<224 + (c \div 4096), 128 + ((c \div 64) % 64), 128 + (c % 64)>>
    ELSE <<240 + (c \div 262144), 128 + ((c \div 4096) % 64),
           128 + ((c \div 64) % 64), 128 + (c % 64)>>

RECURSIVE Utf8Encode(_)
Utf8Encode(cs) ==
    IF cs = <<>> THEN <<>> ELSE Utf8EncodeChar(Head(cs)) \o Utf8Encode(Tail(cs))

IsCont(b) == b >= 128 /\ b < 192

\* Number of bytes announced by a lead byte, 0 if it is no lead byte.
LeadLen(b) ==
    IF b < 128 THEN 1
    ELSE IF b >= 194 /\ b < 224 THEN 2
    ELSE IF b >= 224 /\ b < 240 THEN 3
    ELSE IF b >= 240 /\ b < 245 THEN 4
    ELSE 0

WellFormedSeq(bs) ==
    /\ LeadLen(bs[1]) = Len(bs)
    /\ \A i \in 2..Len(bs) : IsCont(bs[i])

DecodeChar(bs) ==
    CASE Len(bs) = 1 -> bs[1]
      [] Len(bs) = 2 -> (bs[1] - 192) * 64 + (bs[2] - 128)
      [] Len(bs) = 3 -> (bs[1] - 224) * 4096 + (bs[2] - 128) * 64 + (bs[3] - 128)
      [] OTHER -> (bs[1] - 240) * 262144 + (bs[2] - 128) * 4096
                     + (bs[3] - 128) * 64 + (bs[4] - 128)

RECURSIVE ValidUtf8(_)
ValidUtf8(bs) ==
    IF bs = <<>> THEN TRUE
    ELSE LET n == LeadLen(Head(bs)) IN
         /\ n > 0
         /\ n <= Len(bs)
         /\ WellFormedSeq(SubSeq(bs, 1, n))
         /\ ValidUtf8(SubSeq(bs, n + 1, Len(bs)))

\* Defined on valid UTF-8 only.
RECURSIVE Utf8Decode(_)
Utf8Decode(bs) ==
    IF bs = <<>> THEN <<>>
    ELSE LET n == LeadLen(Head(bs)) IN
         <<DecodeChar(SubSeq(bs, 1, n))>> \o Utf8Decode(SubSeq(bs, n + 1, Len(bs)))

\* NSString::from_str reading the bytes as Latin-1 instead of UTF-8.
NSString_from_str_latin1(bytes) == bytes

\* NSString::from_str(&data)
NSString_from_str(bytes) == Utf8Decode(bytes)

\* string_array[0].as_str().to_owned()
NSString_as_str(ns) == Utf8Encode(ns)

(***************************************************************************)
(* NSPasteboard / NSPasteboardItem, as the backend uses them.              *)
(***************************************************************************)
Utf8PlainText == "public.utf8-plain-text"

\* clearContents left out: the pasteboard keeps its items.
clearContents_skipped(p) == p

\* msg_send![self.pasteboard, clearContents]
clearContents(p) == <<>>

\* msg_send![self.pasteboard, writeObjects: items], when it returns YES
writeObjects(p, objs) == p \o objs

\* types cut down to the first type of the item.
item_types_first(item) == IF Len(item) = 0 THEN <<>> ELSE <<item[1].typ>>

\* msg_send![item, types]
item_types(item) == [i \in 1..Len(item) |-> item[i].typ]

ItemIds(item) == {item[i].typ : i \in 1..Len(item)}

\* Every native identifier some item of the pasteboard offers.
PbIds(p) == UNION {ItemIds(p[i]) : i \in 1..Len(p)}

ItemData(item, typ) ==
    LET i == CHOOSE j \in 1..Len(item) : item[j].typ = typ IN item[i].data

\* msg_send![pasteboard_item, setData:data forType:typ]
setData_forType(item, data, typ) ==
    IF typ \in ItemIds(item)
    THEN [i \in 1..Len(item) |->
            IF item[i].typ = typ THEN [typ |-> typ, data |-> data] ELSE item[i]]
    ELSE Append(item, [typ |-> typ, data |-> data])

\* msg_send![self.pasteboard, dataForType: typ]: the data of the first item
\* that offers typ, the empty sequence of results (nil) if there is none.
dataForType(p, typ) ==
    LET having == {i \in 1..Len(p) : typ \in ItemIds(p[i])} IN
    IF having = {} THEN <<>>
    ELSE LET i == CHOOSE j \in having : \A k \in having : j <= k IN
         <<ItemData(p[i], typ)>>

\* The pasteboard item writeObjects makes of an NSString.
StringItem(ns) == <<[typ |-> Utf8PlainText, data |-> Utf8Encode(ns)]>>

\* Does the item read as an NSString?
ReadsAsString(item) ==
    /\ Utf8PlainText \in ItemIds(item)
    /\ ValidUtf8(ItemData(item, Utf8PlainText))

\* msg_send![self.pasteboard, readObjectsForClasses:[NSString] options:{}]
RECURSIVE readObjectsForClasses(_)
readObjectsForClasses(p) ==
    IF p = <<>> THEN <<>>
    ELSE (IF ReadsAsString(Head(p))
          THEN <<Utf8Decode(ItemData(Head(p), Utf8PlainText))>>
          ELSE <<>>) \o readObjectsForClasses(Tail(p))

\* OSXClipboardContext::first_item: None is the empty sequence.  nil is
\* whether msg_send![self.pasteboard, pasteboardItems] returned a null
\* pointer, which it does when the items cannot be retrieved.
first_item(p, nil) == IF nil \/ p = <<>> THEN <<>> ELSE <<p[1]>>

(***************************************************************************)
(* Images (feature image-data).  An NSImage is the ImageData it was made   *)
(* of; on the pasteboard it is a TIFF.                                     *)
(***************************************************************************)
PublicTiff == "public.tiff"

ImageData(width, height, bytes) == [width |-> width, height |-> height, bytes |-> bytes]

\* msg_send![obj, TIFFRepresentation]: the header "II*", the size, the pixels.
TIFFRepresentation(image) == <<73, 73, 42, image.width, image.height>> \o image.bytes

\* reader.decode() and into_rgba8(): None (the empty sequence) for a TIFF
\* the decoder does not read.
tiff_decode(tiff) ==
    IF /\ Len(tiff) >= 5
       /\ SubSeq(tiff, 1, 3) = <<73, 73, 42>>
       /\ Len(tiff) = 5 + 4 * tiff[4] * tiff[5]
    THEN <<ImageData(tiff[4], tiff[5], SubSeq(tiff, 6, Len(tiff)))>>
    ELSE <<>>

\* The pasteboard item writeObjects makes of an NSImage.
ImageItem(image) == <<[typ |-> PublicTiff, data |-> TIFFRepresentation(image)]>>

\* msg_send![self.pasteboard, readObjectsForClasses:[NSImage] options:{}],
\* each NSImage by its TIFF.
RECURSIVE readImagesForClasses(_)
readImagesForClasses(p) ==
    IF p = <<>> THEN <<>>
    ELSE (IF PublicTiff \in ItemIds(Head(p))
          THEN <<ItemData(Head(p), PublicTiff)>>
          ELSE <<>>) \o readImagesForClasses(Tail(p))

(***************************************************************************)
(* Results: Result<T, Error>.                                              *)
(***************************************************************************)
Ok(v) == [ok |-> TRUE, err |-> "", val |-> v]

Err(e) == [ok |-> FALSE, err |-> e, val |-> <<>>]

ContentNotAvailable == "ContentNotAvailable"
ClipboardOccupied == "ClipboardOccupied"
Unknown == "Unknown"
ConversionFailure == "ConversionFailure"

GetContentResult(ct, data) == [content_type |-> ct, data |-> data]

(***************************************************************************)
(* The backend operations as functions of the pasteboard.                  *)
(***************************************************************************)
\* OSXClipboardContext::get_text
get_text_result(p) ==
    LET string_array == readObjectsForClasses(p) IN
    IF Len(string_array) = 0 THEN Err(ContentNotAvailable)
    ELSE Ok(NSString_as_str(string_array[1]))

\* OSXClipboardContext::get_image
get_image_result(p) ==
    LET contents == readImagesForClasses(p) IN
    IF Len(contents) = 0 THEN Err(ContentNotAvailable)
    ELSE LET img == tiff_decode(contents[1]) IN
         IF img = <<>> THEN Err(ConversionFailure) ELSE Ok(img[1])

\* OSXClipboardContext::set_image, after image_from_pixels
set_image_result(success) == IF success THEN Ok(<<>>) ELSE Err(Unknown)

\* set_text clearing the pasteboard only when the write goes through.
set_text_pb_kept(p, data, success) ==
    IF success THEN <<StringItem(NSString_from_str(data))>> ELSE p

\* OSXClipboardContext::set_text: the pasteboard it leaves; success is what
\* writeObjects returns.
set_text_pb(p, data, success) ==
    LET string_array == <<StringItem(NSString_from_str(data))>>
        cleared == clearContents(p)
    IN IF success THEN writeObjects(cleared, string_array) ELSE cleared

set_text_result(success) == IF success THEN Ok(<<>>) ELSE Err(Unknown)

\* OSXClipboardContext::get_content_types
get_content_types_result(p, nil) ==
    LET first == first_item(p, nil) IN
    IF first = <<>> THEN Ok(<<>>) ELSE Ok(item_types(first[1]))

\* The one native identifier get_content_for_types asks the pasteboard for.
\* The source passes its whole argument to denormalize_content_type and has
\* no loop over it; the model reads that as the head of the list.
probed_type(ct) == denormalize_content_type(ct[1])[1]

\* OSXClipboardContext::get_content_for_types, after first_item
get_content_data(p, ct) ==
    LET typ == probed_type(ct)
        data == dataForType(p, typ)
    IN IF data = <<>> THEN Err(ContentNotAvailable)
       ELSE Ok(GetContentResult(typ, data[1]))

\* OSXClipboardContext::get_content_for_types
get_content_for_types_result(p, ct, nil) ==
    IF first_item(p, nil) = <<>> THEN Err(ContentNotAvailable)
    ELSE get_content_data(p, ct)

\* The loop of set_content_types with the item made anew in each iteration:
\* only the last entry stays.
pasteboard_item_last_only(map, order) ==
    IF order = <<>> THEN <<>>
    ELSE LET ct == order[Len(order)]
         IN setData_forType(<<>>, map[ct], denormalize_content_type(ct)[1])

\* The loop of set_content_types over map.into_iter(), in iteration order.
RECURSIVE pasteboard_item(_, _)
pasteboard_item(map, order) ==
    IF order = <<>> THEN <<>>
    ELSE LET n == Len(order)
             ct == order[n]
         IN setData_forType(pasteboard_item(map, SubSeq(order, 1, n - 1)),
                            map[ct], denormalize_content_type(ct)[1])

\* set_content_types clearing the pasteboard only when the write goes through.
set_content_types_pb_kept(p, map, order, success) ==
    IF success THEN <<pasteboard_item(map, order)>> ELSE p

\* OSXClipboardContext::set_content_types: the pasteboard it leaves.
set_content_types_pb(p, map, order, success) ==
    LET items == <<pasteboard_item(map, order)>>
        cleared == clearContents(p)
    IN IF success THEN writeObjects(cleared, items) ELSE cleared

set_content_types_result(success) ==
    IF success THEN Ok(<<>>) ELSE Err(ClipboardOccupied)

(***************************************************************************)
(* Inputs.                                                                 *)
(***************************************************************************)
SeqsUpTo(S, n) == UNION {[1..k -> S] : k \in 0..n}

\* Strings handed to set_text.
Texts == {Utf8Encode(cs) : cs \in SeqsUpTo(Chars, MaxTextLen)}

\* The strings the one-handle specification hands to set_text: "H", U+00E9.
ShortTexts == {Utf8Encode(<<72>>), Utf8Encode(<<233>>)}

\* Keys of the maps handed to set_content_types.
MapKeys == {Text, Html, Custom("public.html"), Custom("com.example.custom")}

\* The byte vector a map holds under a key: every key has bytes of its own.
\* "hi", "<b>", a byte that is no UTF-8, and a NUL.
Sample(ct) ==
    CASE ct = Text -> <<104, 105>>
      [] ct = Html -> <<60, 98, 62>>
      [] ct = Custom("public.html") -> <<255>>
      [] OTHER -> <<0>>

Maps ==
    {[ct \in K |-> Sample(ct)] : K \in {X \in SUBSET MapKeys : Cardinality(X) <= MaxEntries}}

\* The orders in which a HashMap with key set K can be iterated.
Orders(K) ==
    {o \in [1..Cardinality(K) -> K] : \A i, j \in 1..Cardinality(K) : o[i] = o[j] => i = j}

\* Priority lists handed to get_content_for_types: no type twice, not empty.
ListTypes == {Rtf, Html, Text, Custom("com.example.custom")}

Lists ==
    {l \in SeqsUpTo(ListTypes, MaxListLen) :
        /\ l # <<>>
        /\ \A i, j \in 1..Len(l) : l[i] = l[j] => i = j}

\* Snapshots other applications leave on the general pasteboard: one item
\* of one type, and two items of which the second offers types the first
\* does not.
OtherSnapshots ==
    {<< <<[typ |-> "public.png", data |-> <<137, 80>>]>> >>,
     << <<[typ |-> "public.file-url", data |-> <<47>>]>>,
        <<[typ |-> "public.rtf", data |-> <<123, 125>>],
          [typ |-> Utf8PlainText, data |-> <<104, 105>>]>> >>}

Handles == 1..MaxHandles

\* The Clipboard of the one-handle specification.
Main == CHOOSE h \in Handles : \A g \in Handles : h <= g

Threads == 1..MaxThreads

(***************************************************************************)
(* Single-threaded use of the facade: every operation runs to completion.  *)
(* Spec drives one Clipboard through all operations, between writes of     *)
(* other applications; SpecText several Clipboards, opened and dropped,    *)
(* through the text operations.                                            *)
(* wr records the last write (h: the handle that wrote a text, 0 once it   *)
(* is dropped; replaced: the snapshot it found offered identifiers the     *)
(* write does not offer; answers: what writeObjects answered, and what it   *)
(* would answer if asked again), rd the last other operation since that     *)
(* write                                                                   *)
(* (nil: pasteboardItems returned a null pointer in it).                   *)
(***************************************************************************)
Done(op, h, arg, res) ==
    [op |-> op, h |-> h, arg |-> arg, res |-> res, nil |-> FALSE]

\* An operation that went through first_item.
DoneItems(op, arg, res, nil) == [Done(op, 0, arg, res) EXCEPT !.nil = nil]

NoOp == Done("none", 0, <<>>, Ok(<<>>))

Wrote(op, h, arg, res, replaced, answers) ==
    [op |-> op, h |-> h, arg |-> arg, res |-> res, replaced |-> replaced,
     answers |-> answers]

NoWrite == Wrote("none", 0, <<>>, Ok(<<>>), FALSE, <<>>)

\* What writeObjects can answer to a first and to a second call.
Answers == {<<TRUE, TRUE>>, <<FALSE, TRUE>>, <<FALSE, FALSE>>}

\* The native identifiers a write offers.
Offered(op, arg) ==
    CASE op = "set_text" -> {Utf8PlainText}
      [] op = "set_content_types" -> {denormalize_content_type(ct)[1] : ct \in DOMAIN arg}
      [] OTHER -> {}

\* Does snapshot p offer an identifier the write does not offer?
Replaces(p, op, arg) == PbIds(p) \ Offered(op, arg) # {}

\* A thread's frame: the operation it runs, its argument, what first_item
\* returned, whether pasteboardItems returned a null pointer, and the result.
Local(op, arg, item, res) ==
    [op |-> op, arg |-> arg, item |-> item, res |-> res, nil |-> FALSE]

NoLocal == Local("none", <<>>, <<>>, Ok(<<>>))

Idle ==
    /\ pc = [t \in Threads |-> "idle"]
    /\ guard = 0
    /\ loc = [t \in Threads |-> NoLocal]
    /\ cands = [t \in Threads |-> {}]

Init ==
    /\ pb = <<>>
    /\ open = {}
    /\ wr = NoWrite
    /\ rd = NoOp
    /\ Idle

\* Clipboard::new / OSXClipboardContext::new; found is whether the
\* NSPasteboard class and the general pasteboard were obtained.
new(h) ==
    /\ h \notin open
    /\ \E found \in BOOLEAN :
        /\ open' = IF found THEN open \cup {h} ELSE open
        /\ rd' = Done("new", 0, <<>>, IF found THEN Ok(<<>>) ELSE Err(Unknown))
    /\ UNCHANGED <<pb, wr, pc, guard, loc, cands>>

\* The Clipboard goes out of scope.
drop(h) ==
    /\ h \in open
    /\ open' = open \ {h}
    /\ wr' = IF wr.h = h THEN [wr EXCEPT !.h = 0] ELSE wr
    /\ rd' = Done("drop", 0, <<>>, Ok(<<>>))
    /\ UNCHANGED <<pb, pc, guard, loc, cands>>

get_text(h) ==
    /\ h \in open
    /\ rd' = Done("get_text", h, <<>>, get_text_result(pb))
    /\ UNCHANGED <<pb, open, wr, pc, guard, loc, cands>>

set_text(h, data) ==
    /\ h \in open
    /\ \E answers \in Answers :
        LET success == answers[1] IN
        /\ pb' = set_text_pb(pb, data, success)
        /\ wr' = Wrote("set_text", h, data, set_text_result(success),
                       Replaces(pb, "set_text", data), answers)
    /\ rd' = NoOp
    /\ UNCHANGED <<open, pc, guard, loc, cands>>

get_content_types ==
    /\ open # {}
    /\ \E nil \in BOOLEAN :
        rd' = DoneItems("get_content_types", <<>>, get_content_types_result(pb, nil), nil)
    /\ UNCHANGED <<pb, open, wr, pc, guard, loc, cands>>

get_content_for_types(ct) ==
    /\ open # {}
    /\ \E nil \in BOOLEAN :
        rd' = DoneItems("get_content_for_types", ct,
                        get_content_for_types_result(pb, ct, nil), nil)
    /\ UNCHANGED <<pb, open, wr, pc, guard, loc, cands>>

set_content_types(map) ==
    /\ open # {}
    /\ \E order \in Orders(DOMAIN map), answers \in Answers :
        LET success == answers[1] IN
        /\ pb' = set_content_types_pb(pb, map, order, success)
        /\ wr' = Wrote("set_content_types", 0, map, set_content_types_result(success),
                       Replaces(pb, "set_content_types", map), answers)
    /\ rd' = NoOp
    /\ UNCHANGED <<open, pc, guard, loc, cands>>

\* Another application writes the general pasteboard.
other_application(p) ==
    /\ pb' = p
    /\ wr' = Wrote("other_application", 0, <<>>, Ok(<<>>), FALSE, <<>>)
    /\ rd' = NoOp
    /\ UNCHANGED <<open, pc, guard, loc, cands>>

\* Clipboard::normalize_content_type
normalize(str) ==
    /\ open # {}
    /\ rd' = Done("normalize_content_type", 0, str, Ok(normalize_content_type(str)))
    /\ UNCHANGED <<pb, open, wr, pc, guard, loc, cands>>

\* Clipboard::denormalize_content_type
denormalize(ct) ==
    /\ open # {}
    /\ rd' = Done("denormalize_content_type", 0, ct, Ok(denormalize_content_type(ct)))
    /\ UNCHANGED <<pb, open, wr, pc, guard, loc, cands>>

\* Every operation is a method of an open Clipboard; h is named where the
\* handle that acts is recorded.
Next ==
    \/ new(Main)
    \/ get_text(Main)
    \/ \E data \in ShortTexts : set_text(Main, data)
    \/ get_content_types
    \/ \E ct \in Lists : get_content_for_types(ct)
    \/ \E map \in Maps : set_content_types(map)
    \/ \E p \in OtherSnapshots : other_application(p)
    \/ \E str \in NativeIds : normalize(str)
    \/ \E ct \in ContentTypes : denormalize(ct)

Spec == Init /\ [][Next]_vars

NextText ==
    \/ \E h \in Handles : new(h)
    \/ \E h \in Handles : drop(h)
    \/ \E h \in Handles : get_text(h)
    \/ \E h \in Handles, data \in Texts : set_text(h, data)

SpecText == Init /\ [][NextText]_vars

(***************************************************************************)
(* Several threads, each with a Clipboard of its own (thread t owns handle *)
(* t), one step per native call.  pc[t] names the native call thread t is  *)
(* executing; guard is the thread that holds CLIPBOARD_CONTEXT_MUTEX, 0 if *)
(* it is free.  cands[t] collects the snapshots that stood between whole   *)
(* writes while the operation of t ran.                                    *)
(***************************************************************************)
ConcTexts == {Utf8Encode(<<72>>)}

ConcMaps == {m \in Maps : DOMAIN m = {Html}}

ConcLists == {<<Text>>, <<Html, Text>>}

\* One opaque red pixel.
ConcImages == {ImageData(1, 1, <<255, 0, 0, 255>>)}

\* An image of another application, in a TIFF the decoder does not read.
ForeignImages == {<< <<[typ |-> PublicTiff, data |-> <<77, 77, 0, 42>>]>> >>}

ReadOps == {"get_text", "get_image", "get_content_types", "get_content_for_types"}

WriteOps == {"set_text", "set_content_types"}

\* The calls into AppKit.
NativeLabels == {"generalPasteboard", "readObjectsForClasses", "clearContents",
                 "writeObjects", "pasteboardItems", "types", "dataForType"}

\* The first step of an operation after it has the guard.
FirstCall(op) ==
    CASE op = "new" -> "generalPasteboard"
      [] op \in {"get_text", "get_image"} -> "readObjectsForClasses"
      [] op = "set_image" -> "image_from_pixels"
      [] op \in WriteOps -> "clearContents"
      [] OTHER -> "pasteboardItems"

\* What the read would return on snapshot p.
ReadOf(op, arg, p, nil) ==
    CASE op = "get_text" -> get_text_result(p)
      [] op = "get_image" -> get_image_result(p)
      [] op = "get_content_types" -> get_content_types_result(p, nil)
      [] OTHER -> get_content_for_types_result(p, arg, nil)

InitConc ==
    /\ pb = <<>>
    /\ open = {}
    /\ wr = NoWrite
    /\ rd = NoOp
    /\ Idle

\* The facade method is called.
call(t, op, arg) ==
    /\ pc[t] = "idle"
    /\ IF op = "new" THEN t \notin open ELSE t \in open
    /\ pc' = [pc EXCEPT ![t] = "lock"]
    /\ loc' = [loc EXCEPT ![t] = Local(op, arg, <<>>, Ok(<<>>))]
    /\ cands' = [cands EXCEPT ![t] = {}]
    /\ UNCHANGED <<pb, open, wr, rd, guard>>

\* let lock = CLIPBOARD_CONTEXT_MUTEX.lock();
lock(t) ==
    /\ pc[t] = "lock"
    /\ guard = 0
    /\ guard' = t
    /\ pc' = [pc EXCEPT ![t] = FirstCall(loc[t].op)]
    /\ cands' = [cands EXCEPT ![t] = IF loc[t].op \in ReadOps THEN {pb} ELSE {}]
    /\ UNCHANGED <<pb, open, wr, rd, loc>>

\* Return with the guard kept when the operation fails.
Return_leaking(t, res) ==
    /\ pc' = [pc EXCEPT ![t] = "idle"]
    /\ guard' = IF guard = t /\ res.ok THEN 0 ELSE guard
    /\ loc' = [loc EXCEPT ![t].res = res]

\* The operation returns res; a guard still held is dropped with it.
Return(t, res) ==
    /\ pc' = [pc EXCEPT ![t] = "idle"]
    /\ guard' = IF guard = t THEN 0 ELSE guard
    /\ loc' = [loc EXCEPT ![t].res = res]

\* OSXClipboardContext::new
generalPasteboard(t) ==
    /\ pc[t] = "generalPasteboard"
    /\ \E found \in BOOLEAN :
        /\ open' = IF found THEN open \cup {t} ELSE open
        /\ Return(t, IF found THEN Ok(<<>>) ELSE Err(Unknown))
    /\ UNCHANGED <<pb, wr, rd, cands>>

\* OSXClipboardContext::get_text / get_image
readObjects(t) ==
    /\ pc[t] = "readObjectsForClasses"
    /\ Return(t, IF loc[t].op = "get_text" THEN get_text_result(pb)
                 ELSE get_image_result(pb))
    /\ UNCHANGED <<pb, open, wr, rd, cands>>

\* OSXClipboardContext::set_image: image_from_pixels(..).map_err(..)?; found
\* is whether the NSImage class was obtained.
imageFromPixels(t) ==
    /\ pc[t] = "image_from_pixels"
    /\ \E found \in BOOLEAN :
        IF found
        THEN /\ pc' = [pc EXCEPT ![t] = "clearContents"]
             /\ UNCHANGED <<guard, loc>>
        ELSE Return(t, Err(ConversionFailure))
    /\ UNCHANGED <<pb, open, wr, rd, cands>>

\* set_text / set_image / set_content_types: clearContents
clear(t) ==
    /\ pc[t] = "clearContents"
    /\ pb' = clearContents(pb)
    /\ pc' = [pc EXCEPT ![t] = "writeObjects"]
    /\ UNCHANGED <<open, wr, rd, guard, loc, cands>>

\* The objects the write hands to writeObjects.
Objects(op, arg) ==
    CASE op = "set_text" -> {<<StringItem(NSString_from_str(arg))>>}
      [] op = "set_image" -> {<<ImageItem(arg)>>}
      [] OTHER -> {<<pasteboard_item(arg, order)>> : order \in Orders(DOMAIN arg)}

\* The reads in progress have seen one more whole snapshot, p.
Seen(t, p) ==
    [u \in Threads |->
        IF u # t /\ pc[u] \notin {"idle", "lock"} /\ loc[u].op \in ReadOps
        THEN cands[u] \cup {p} ELSE cands[u]]

\* set_text / set_image / set_content_types: writeObjects and the return
write(t) ==
    /\ pc[t] = "writeObjects"
    /\ \E objs \in Objects(loc[t].op, loc[t].arg), success \in BOOLEAN :
        /\ pb' = IF success THEN writeObjects(pb, objs) ELSE pb
        /\ Return(t, CASE loc[t].op = "set_text" -> set_text_result(success)
                       [] loc[t].op = "set_image" -> set_image_result(success)
                       [] OTHER -> set_content_types_result(success))
    /\ cands' = Seen(t, pb')
    /\ UNCHANGED <<open, wr, rd>>

\* get_content_types / get_content_for_types:
\*   let first_item = self.first_item(&mut lock.unwrap());
\* lock.unwrap() moves the guard into a temporary of this statement, which is
\* dropped, and the mutex unlocked, when the statement ends.
pasteboardItems(t) ==
    /\ pc[t] = "pasteboardItems"
    /\ \E nil \in BOOLEAN :
        LET first == first_item(pb, nil) IN
        IF first = <<>>
        THEN /\ pc' = [pc EXCEPT ![t] = "idle"]
             /\ guard' = 0
             /\ loc' = [loc EXCEPT ![t].nil = nil,
                                   ![t].res = IF loc[t].op = "get_content_types"
                                              THEN Ok(<<>>)
                                              ELSE Err(ContentNotAvailable)]
        ELSE /\ pc' = [pc EXCEPT ![t] =
                         IF loc[t].op = "get_content_types" THEN "types" ELSE "dataForType"]
             /\ guard' = 0
             /\ loc' = [loc EXCEPT ![t].item = first]
    /\ UNCHANGED <<pb, open, wr, rd, cands>>

\* get_content_types: msg_send![first_item.unwrap(), types], on the item
\* first_item returned (the array of pasteboardItems keeps it alive).
types(t) ==
    /\ pc[t] = "types"
    /\ Return(t, Ok(item_types(loc[t].item[1])))
    /\ UNCHANGED <<pb, open, wr, rd, cands>>

\* get_content_for_types: msg_send![self.pasteboard, dataForType: typ]
data(t) ==
    /\ pc[t] = "dataForType"
    /\ Return(t, get_content_data(pb, loc[t].arg))
    /\ UNCHANGED <<pb, open, wr, rd, cands>>

NextConc ==
    \/ \E t \in Threads : call(t, "new", <<>>)
    \/ \E t \in Threads : call(t, "get_text", <<>>)
    \/ \E t \in Threads, str \in ConcTexts : call(t, "set_text", str)
    \/ \E t \in Threads : call(t, "get_content_types", <<>>)
    \/ \E t \in Threads, ct \in ConcLists : call(t, "get_content_for_types", ct)
    \/ \E t \in Threads, map \in ConcMaps : call(t, "set_content_types", map)
    \/ \E t \in Threads : lock(t)
    \/ \E t \in Threads : generalPasteboard(t)
    \/ \E t \in Threads : readObjects(t)
    \/ \E t \in Threads : clear(t)
    \/ \E t \in Threads : write(t)
    \/ \E t \in Threads : pasteboardItems(t)
    \/ \E t \in Threads : types(t)
    \/ \E t \in Threads : data(t)

SpecConc == InitConc /\ [][NextConc]_vars

\* The steps of thread t once it has the guard.
Body(t) ==
    \/ generalPasteboard(t)
    \/ readObjects(t)
    \/ imageFromPixels(t)
    \/ clear(t)
    \/ write(t)
    \/ pasteboardItems(t)
    \/ types(t)
    \/ data(t)

\* A thread that can take a step takes one, and a thread that waits for the
\* mutex while it is free again and again gets it.
Fairness == \A t \in Threads : WF_vars(Body(t)) /\ SF_vars(lock(t))

(***************************************************************************)
(* Every operation of the backend, the image operations included, on a     *)
(* pasteboard that holds what other applications left there, under fair    *)
(* scheduling.                                                             *)
(***************************************************************************)
InitGuard ==
    /\ pb \in {<<>>} \cup ForeignImages
    /\ open = {}
    /\ wr = NoWrite
    /\ rd = NoOp
    /\ Idle

NextGuard ==
    \/ \E t \in Threads : call(t, "new", <<>>)
    \/ \E t \in Threads : call(t, "get_text", <<>>)
    \/ \E t \in Threads : call(t, "get_image", <<>>)
    \/ \E t \in Threads, str \in ConcTexts : call(t, "set_text", str)
    \/ \E t \in Threads, image \in ConcImages : call(t, "set_image", image)
    \/ \E t \in Threads : call(t, "get_content_types", <<>>)
    \/ \E t \in Threads : call(t, "get_content_for_types", <<Text>>)
    \/ \E t \in Threads, map \in ConcMaps : call(t, "set_content_types", map)
    \/ \E t \in Threads : lock(t)
    \/ \E t \in Threads : Body(t)

SpecGuard == InitGuard /\ [][NextGuard]_vars /\ Fairness

(***************************************************************************)
(* Properties.                                                             *)
(***************************************************************************)
Range(f) == {f[i] : i \in 1..Len(f)}

\* Is canonical type ct present in snapshot p, under one of its identifiers?
Present(p, ct) == \E id \in Range(denormalize_content_type(ct)) : id \in PbIds(p)

AfterWrite(op) == wr.op = op /\ wr.res.ok

\* C1: get_content_for_types returns the representation of the earliest type
\* of the priority list that is present in the snapshot: the identifier it
\* returns normalizes to that type and the bytes are those stored under it.
PriorityOrder ==
    rd.op = "get_content_for_types" =>
        LET present == {i \in 1..Len(rd.arg) : Present(pb, rd.arg[i])} IN
        present # {} =>
            LET first == CHOOSE i \in present : \A j \in present : i <= j IN
            /\ rd.res.ok
            /\ normalize_content_type(rd.res.val.content_type) = rd.arg[first]
            /\ <<rd.res.val.data>> = dataForType(pb, rd.res.val.content_type)

\* The snapshot is one item that offers, for every key of map, the key's
\* first native identifier with bytes of an entry denormalized to it, and
\* nothing else.
Complete(p, map) ==
    /\ Len(p) = 1
    /\ ItemIds(p[1]) = Offered("set_content_types", map)
    /\ \A id \in ItemIds(p[1]) :
          \E ct \in DOMAIN map :
              denormalize_content_type(ct)[1] = id /\ ItemData(p[1], id) = map[ct]

\* The step is a set_content_types call.
IsSetContentTypes == rd' = NoOp /\ wr'.op = "set_content_types"

\* C2: set_content_types is atomic: when it has returned, with Ok or with an
\* error, the snapshot offers all representations of the mapping together or
\* is the snapshot that stood before the call.
AtomicWrite ==
    [][IsSetContentTypes => (Complete(pb', wr'.arg) \/ pb' = pb)]_vars

\* C2, amended: after Ok the snapshot is exactly the representations of the
\* mapping; after ClipboardOccupied it is empty, whatever stood before.
AtomicWriteOrEmpty ==
    wr.op = "set_content_types" =>
        IF wr.res.ok THEN Complete(pb, wr.arg)
        ELSE wr.res.err = ClipboardOccupied /\ pb = <<>>

\* A refused set_content_types on a clipboard that held other content.
RefusedWriteReached ==
    /\ wr.op = "set_content_types"
    /\ ~wr.res.ok
    /\ wr.replaced
    /\ pb = <<>>

\* C3: every identifier get_content_types lists right after a successful
\* write (set_text, set_content_types) is one that write offered, so none is
\* offered only by an earlier, different write.
WritesReplace ==
    (rd.op = "get_content_types" /\ wr.op \in WriteOps /\ wr.res.ok) =>
        /\ rd.res.ok
        /\ Range(rd.res.val) \subseteq Offered(wr.op, wr.arg)

\* get_content_types after a write that replaced content it does not offer.
ReplacedListed ==
    /\ rd.op = "get_content_types"
    /\ wr.op \in WriteOps
    /\ wr.res.ok
    /\ wr.replaced
    /\ rd.res.val # <<>>

\* What a read of the single type ct returns right after the write of map,
\* when the platform hands out the items of the pasteboard.
ReadsBack(map) ==
    (rd.op = "get_content_for_types" /\ ~rd.nil /\ Len(rd.arg) = 1
        /\ rd.arg[1] \in DOMAIN map) =>
        rd.res.ok /\ rd.res.val.data = map[rd.arg[1]]

StoresEveryEntry(p, map) ==
    /\ \A ct \in DOMAIN map : dataForType(p, denormalize_content_type(ct)[1]) = <<map[ct]>>
    /\ Cardinality(PbIds(p)) = Cardinality(DOMAIN map)

\* C4: after a successful set_content_types(m) the snapshot stores, for every
\* entry of m, its bytes under the first native identifier of its key, a read
\* of that one type returns them, and there are as many representations as
\* entries.
OneRepresentationPerEntry ==
    AfterWrite("set_content_types") =>
        StoresEveryEntry(pb, wr.arg) /\ ReadsBack(wr.arg)

\* No two keys of the map denormalize to the same native identifier.
DistinctIds(map) ==
    \A c1, c2 \in DOMAIN map :
        denormalize_content_type(c1)[1] = denormalize_content_type(c2)[1] => c1 = c2

\* C4, amended: the above for maps whose keys denormalize to distinct native
\* identifiers; keys that share an identifier share one representation, which
\* holds the bytes of one of them.
OneRepresentationPerIdentifier ==
    AfterWrite("set_content_types") =>
        /\ Complete(pb, wr.arg)
        /\ DistinctIds(wr.arg) => StoresEveryEntry(pb, wr.arg) /\ ReadsBack(wr.arg)

\* A Custom entry read back from a map that mixes it with a well-known type.
MixedMapReadBack ==
    /\ AfterWrite("set_content_types")
    /\ DOMAIN wr.arg = {Text, Custom("com.example.custom")}
    /\ rd.op = "get_content_for_types"
    /\ ~rd.nil
    /\ rd.arg = <<Custom("com.example.custom")>>

\* C5: after a successful set_text(s), get_text() returns s, also on another
\* handle after the handle that wrote is dropped, with no write in between.
TextRoundTrip ==
    (rd.op = "get_text" /\ AfterWrite("set_text")) => rd.res = Ok(wr.arg)

\* A text of several bytes read after the handle that wrote it was dropped.
TextReadAfterDrop ==
    /\ rd.op = "get_text"
    /\ AfterWrite("set_text")
    /\ wr.h = 0
    /\ Len(wr.arg) > 1

\* The canonical types get_content_types lists, each element normalized.
Listed == {normalize_content_type(id) : id \in Range(rd.res.val)}

\* C6: after a successful set_content_types(m), get_content_types(), each
\* element normalized, contains every key of m.
ListingSuperset ==
    (rd.op = "get_content_types" /\ AfterWrite("set_content_types")) =>
        rd.res.ok /\ DOMAIN wr.arg \subseteq Listed

\* C6, amended: when the platform hands out the items of the pasteboard, it
\* contains every key normalized, normalize(denormalize(k)[0]); that is the
\* key itself unless the key is a Custom of a native identifier of the table.
ListingSupersetNormalized ==
    (rd.op = "get_content_types" /\ ~rd.nil /\ AfterWrite("set_content_types")) =>
        /\ rd.res.ok
        /\ \A ct \in DOMAIN wr.arg :
              /\ normalize_content_type(denormalize_content_type(ct)[1]) \in Listed
              /\ (ct \in WellKnown \/ ct.s \notin TableIds) => ct \in Listed

\* The listing after set_content_types({Text, Html}).
TextHtmlListed ==
    /\ rd.op = "get_content_types"
    /\ ~rd.nil
    /\ AfterWrite("set_content_types")
    /\ DOMAIN wr.arg = {Text, Html}

\* C7: get_content_for_types returns ContentNotAvailable when none of the
\* listed types is present, and never when one of them is.
FailsOnlyIfAbsent ==
    rd.op = "get_content_for_types" =>
        LET absent == \A i \in 1..Len(rd.arg) : ~Present(pb, rd.arg[i]) IN
        /\ absent => rd.res = Err(ContentNotAvailable)
        /\ ~absent => rd.res.err # ContentNotAvailable

\* C8: a thread executes a native pasteboard call only while it holds the
\* guard, so no two threads execute native calls at the same instant.
MutualExclusion ==
    /\ \A t \in Threads : pc[t] \in NativeLabels => guard = t
    /\ \A t, u \in Threads :
          (pc[t] \in NativeLabels /\ pc[u] \in NativeLabels) => t = u

\* C9: a read returns what it would return on a snapshot that stood before
\* or after a whole write, never on the cleared state in between.
ReadsAtomic ==
    \A t \in Threads :
        (pc[t] = "idle" /\ loc[t].op \in ReadOps) =>
            \E p \in cands[t] : loc[t].res = ReadOf(loc[t].op, loc[t].arg, p, loc[t].nil)

\* C10: for every well-known type ct, denormalize_content_type(ct) is not
\* empty and its first element normalizes to ct.
NormalizeDenormalize ==
    rd.op = "denormalize_content_type" =>
        /\ Len(rd.res.val) >= 1
        /\ rd.arg \in WellKnown => normalize_content_type(rd.res.val[1]) = rd.arg

\* denormalize_content_type(Pdf) has run.
PdfDenormalized == rd.op = "denormalize_content_type" /\ rd.arg = Pdf

\* C11: a string outside the table normalizes to Custom of that string, and
\* Custom(s) denormalizes to the one-element sequence [s]; so for every
\* string, in the table or not, the first element of the denormalization of
\* its normalization is the string itself.
CustomRoundTrip ==
    /\ rd.op = "normalize_content_type" =>
          /\ rd.res.ok
          /\ rd.arg \notin TableIds => rd.res.val = Custom(rd.arg)
          /\ denormalize_content_type(rd.res.val)[1] = rd.arg
    /\ (rd.op = "denormalize_content_type" /\ rd.arg.tag = "Custom") =>
          rd.res = Ok(<<rd.arg.s>>)

\* normalize_content_type has run on a string outside the table.
CustomNormalized ==
    /\ rd.op = "normalize_content_type"
    /\ rd.arg = "PUBLIC.HTML"
    /\ rd.res.val.tag = "Custom"

\* Position of identifier id in the listing.
IndexOf(listing, id) == CHOOSE i \in 1..Len(listing) : listing[i] = id

\* The listing names the identifiers of snapshot p, those of one item in the
\* order the item reports them.
ListsSnapshot(listing, p) ==
    /\ Range(listing) = PbIds(p)
    /\ \A k \in 1..Len(p) : \A i, j \in 1..Len(p[k]) :
          i < j => IndexOf(listing, p[k][i].typ) < IndexOf(listing, p[k][j].typ)

\* C12: get_content_types never fails: it returns Ok, the empty sequence when
\* the pasteboard has no item or its items cannot be retrieved, and otherwise
\* the native identifiers of the current snapshot in the reported order.
GetContentTypesLists ==
    rd.op = "get_content_types" =>
        /\ rd.res.ok
        /\ IF rd.nil \/ pb = <<>> THEN rd.res.val = <<>>
           ELSE ListsSnapshot(rd.res.val, pb)

\* The part of C12 the code keeps on every snapshot: Ok, empty when there is
\* no item or the items cannot be retrieved, else the types of the first item.
GetContentTypesNeverFails ==
    rd.op = "get_content_types" =>
        /\ rd.res.ok
        /\ IF rd.nil \/ pb = <<>> THEN rd.res.val = <<>>
           ELSE rd.res.val = item_types(pb[1])

\* C13: the guard is released on every exit path: a thread holds it only in
\* the middle of an operation, so it is free whenever no operation is in
\* progress, and a thread that waits for it, after whatever operations ended
\* or failed, gets it and returns.
GuardReleased ==
    /\ [](\A t \in Threads : guard = t => pc[t] \notin {"idle", "lock"})
    /\ []((\A t \in Threads : pc[t] = "idle") => guard = 0)
    /\ \A t \in Threads : (pc[t] = "lock") ~> (guard = t)
    /\ \A t \in Threads : (pc[t] = "lock") ~> (pc[t] = "idle")

\* A thread holds the guard after get_image has failed on another thread.
AcquiredAfterFailure ==
    \E t, u \in Threads :
        /\ t # u
        /\ pc[t] = "idle"
        /\ loc[t].op = "get_image"
        /\ loc[t].res = Err(ConversionFailure)
        /\ guard = u

\* C14: set_text and set_content_types clear the pasteboard before the one
\* write they attempt: after either returns the snapshot holds nothing that
\* stood before the call, only what the call wrote; when writeObjects
\* refuses, the call fails (Unknown for set_text, ClipboardOccupied for
\* set_content_types) without asking again and the clipboard is empty.
ClearedBeforeWrite ==
    wr.op \in WriteOps =>
        /\ wr.res.ok = wr.answers[1]
        /\ IF wr.res.ok
           THEN IF wr.op = "set_text"
                THEN pb = << <<[typ |-> Utf8PlainText, data |-> wr.arg]>> >>
                ELSE Complete(pb, wr.arg)
           ELSE /\ pb = <<>>
                /\ wr.res.err = IF wr.op = "set_text" THEN Unknown ELSE ClipboardOccupied

\* set_text refused on a clipboard that held other content, where a second
\* writeObjects would have gone through.
RefusedTextWrite ==
    /\ wr.op = "set_text"
    /\ wr.answers = <<FALSE, TRUE>>
    /\ wr.replaced
    /\ pb = <<>>

====
